---------------------------- MODULE Spec2Model ----------------------------
(***************************************************************************)
(* Twilio <-> OpenAI realtime relay (tooba29/TwillioCallingApplication).   *)
(*                                                                         *)
(* The repository holds two near-duplicate programs:                       *)
(*   src/main.py      ("main"):    call_sid cache fallback, hang-up on the *)
(*                                 final transcript of response.done,      *)
(*                                 status query + graceful hang-up         *)
(*   src/src/main.py  ("minimal"): hang-up on the accumulated text deltas, *)
(*                                 direct update(status="completed")       *)
(* The variable `variant` says which program a behaviour is a run of.      *)
(*                                                                         *)
(* One streaming connection (handle_media_stream) is modelled, together    *)
(* with the process-wide call_sid_cache that /incoming-call writes.        *)
(* Text is a sequence of one-character strings, so that lower(), strip(),  *)
(* substring search and base64 are computed, not assumed.                  *)
(***************************************************************************)
EXTENDS Integers, Sequences, FiniteSets, TLC

(* ------------------------------ bounds --------------------------------- *)
\* how many frames and events the two pumps take in all (telephony frames
\* from websocket.iter_text() plus AI events from openai_ws.recv())
MaxEvents == 3

(* ------------------------------ text ----------------------------------- *)
None == "None"

UPPER == <<"A","B","C","D","E","F","G","H","I","J","K","L","M","N","O","P","Q","R","S","T","U","V","W","X","Y","Z">>
LOWER == <<"a","b","c","d","e","f","g","h","i","j","k","l","m","n","o","p","q","r","s","t","u","v","w","x","y","z">>
WHITESPACE == {" ", "\t", "\n", "\r"}

\* str.lower() on one character
LowerChar(c) ==
  IF \E i \in 1..Len(UPPER) : UPPER[i] = c
    THEN LOWER[CHOOSE i \in 1..Len(UPPER) : UPPER[i] = c]
    ELSE c

\* str.lower()
lower(s) == [i \in 1..Len(s) |-> LowerChar(s[i])]

\* str.strip(): leading and trailing whitespace removed
strip(s) ==
  LET idx == {i \in 1..Len(s) : s[i] \notin WHITESPACE}
  IN  IF idx = {} THEN <<>>
      ELSE LET lo == CHOOSE i \in idx : \A j \in idx : i <= j
               hi == CHOOSE i \in idx : \A j \in idx : j <= i
           IN  SubSeq(s, lo, hi)

\* Python's `p in t` for strings
In(p, t) ==
  \E k \in 0..(Len(t) - Len(p)) : \A j \in 1..Len(p) : t[k + j] = p[j]

\* src/main.py:112-121
GOODBYE_TRIGGERS ==
  << <<"t","h","a","n","k"," ","y","o","u"," ","b","y","e"," ","h","a","v","e"," ","a"," ","g","r","e","a","t"," ","d","a","y">>,
     <<"t","h","a","n","k"," ","y","o","u"," ","a","n","d"," ","g","o","o","d","b","y","e">>,
     <<"g","o","o","d","b","y","e"," ","h","a","v","e"," ","a"," ","n","i","c","e"," ","d","a","y">>,
     <<"t","h","a","n","k"," ","y","o","u"," ","h","a","v","e"," ","a"," ","g","r","e","a","t"," ","d","a","y">>,
     <<"h","a","v","e"," ","a"," ","g","r","e","a","t"," ","d","a","y">>,
     <<"t","a","l","k"," ","t","o"," ","y","o","u"," ","l","a","t","e","r">>,
     <<"t","a","k","e"," ","c","a","r","e">>,
     <<"g","o","o","d","b","y","e">> >>

\* a plausible slip: the text is compared with the triggers, not searched
is_goodbye_trigger_Exact(text) ==
  \E i \in 1..Len(GOODBYE_TRIGGERS) : GOODBYE_TRIGGERS[i] = strip(lower(text))

\* src/main.py:123-125
is_goodbye_trigger(text) ==
  LET normalized == strip(lower(text))
  IN  \E i \in 1..Len(GOODBYE_TRIGGERS) : In(GOODBYE_TRIGGERS[i], normalized)

\* src/src/main.py:104  "goodbye" in full_text and "great day" in full_text
minimal_trigger(full) ==
  /\ In(<<"g","o","o","d","b","y","e">>, full)
  /\ In(<<"g","r","e","a","t"," ","d","a","y">>, full)

(* ------------------------------ base64 --------------------------------- *)
B64 == <<"A","B","C","D","E","F","G","H","I","J","K","L","M","N","O","P","Q","R","S","T","U","V","W","X","Y","Z","a","b","c","d","e","f","g","h","i","j","k","l","m","n","o","p","q","r","s","t","u","v","w","x","y","z","0","1","2","3","4","5","6","7","8","9","+","/">>

B64Val(c) == (CHOOSE i \in 1..Len(B64) : B64[i] = c) - 1
IsB64(c)  == \E i \in 1..Len(B64) : B64[i] = c

\* binascii.a2b_base64 in its default, non-strict mode (what base64.b64decode
\* calls): characters outside the alphabet are skipped, a complete pad
\* sequence ends the input, an incomplete quad is an error.
\* The result is [ok, bytes].
RECURSIVE a2b(_, _, _, _, _, _)
a2b(s, i, quad, left, pads, out) ==
  IF i > Len(s)
    THEN [ok |-> (quad = 0), bytes |-> out]
    ELSE LET c == s[i] IN
      IF c = "="
        THEN IF quad >= 2 /\ quad + pads + 1 >= 4
               THEN [ok |-> TRUE, bytes |-> out]
               ELSE a2b(s, i + 1, quad, left,
                        IF quad >= 2 THEN pads + 1 ELSE pads, out)
      ELSE IF ~IsB64(c)
        THEN a2b(s, i + 1, quad, left, pads, out)
      ELSE LET v == B64Val(c) IN
        CASE quad = 0 -> a2b(s, i + 1, 1, v, 0, out)
          [] quad = 1 -> a2b(s, i + 1, 2, v % 16, 0,
                             Append(out, left * 4 + (v \div 16)))
          [] quad = 2 -> a2b(s, i + 1, 3, v % 4, 0,
                             Append(out, left * 16 + (v \div 4)))
          [] quad = 3 -> a2b(s, i + 1, 0, 0, 0,
                             Append(out, left * 64 + v))

\* base64.b64decode(s)
b64decode(s) == a2b(s, 1, 0, 0, 0, <<>>)

\* a plausible slip: the last input byte of a chunk is lost in re-encoding
b64encode_Lossy(b) ==
  IF Len(b) = 0 THEN <<>>
  ELSE <<B64[(b[1] \div 4) + 1], B64[((b[1] % 4) * 16) + 1], "=", "=">>

\* base64.b64encode(b).decode("ascii")
RECURSIVE b64encode(_)
b64encode(b) ==
  IF Len(b) = 0 THEN <<>>
  ELSE IF Len(b) = 1 THEN
    <<B64[(b[1] \div 4) + 1], B64[((b[1] % 4) * 16) + 1], "=", "=">>
  ELSE IF Len(b) = 2 THEN
    <<B64[(b[1] \div 4) + 1],
      B64[((b[1] % 4) * 16 + (b[2] \div 16)) + 1],
      B64[((b[2] % 16) * 4) + 1], "=">>
  ELSE
    <<B64[(b[1] \div 4) + 1],
      B64[((b[1] % 4) * 16 + (b[2] \div 16)) + 1],
      B64[((b[2] % 16) * 4 + (b[3] \div 64)) + 1],
      B64[(b[3] % 64) + 1]>> \o b64encode(SubSeq(b, 4, Len(b)))

(* ------------------------------ inputs --------------------------------- *)
\* Frames the telephony channel can deliver (websocket.iter_text()).
\* json = FALSE is a frame json.loads cannot parse.
TwMsgs == {"start1", "start2", "mediaA", "mediaB", "stop", "garbage"}

TwEvent(m) ==
  CASE m = "start1" -> [json |-> TRUE,  event |-> "start", streamSid |-> "MZ1", payload |-> None]
    [] m = "start2" -> [json |-> TRUE,  event |-> "start", streamSid |-> "MZ2", payload |-> None]
    [] m = "mediaA" -> [json |-> TRUE,  event |-> "media", streamSid |-> None,  payload |-> "AAAA"]
    [] m = "mediaB" -> [json |-> TRUE,  event |-> "media", streamSid |-> None,  payload |-> "BBBB"]
    [] m = "stop"   -> [json |-> TRUE,  event |-> "stop",  streamSid |-> None,  payload |-> None]
    [] m = "garbage"-> [json |-> FALSE, event |-> None,    streamSid |-> None,  payload |-> None]

\* content items of response.output[0].content
Item(type, has, tr) == [type |-> type, has_transcript |-> has, transcript |-> tr]

\* Events the AI channel can deliver (openai_ws.recv()).
AIMsgs == {"T_bye", "T_day",
           "D_empty", "D_thanks", "D_eee", "D_assist", "D_multi",
           "A_hello", "A_noncanon", "A_badpad", "A_empty",
           "X_created", "X_garbage"}

AIEv(type, delta, output) ==
  [json |-> TRUE, type |-> type, delta |-> delta, output |-> output]

AIEvent(m) ==
  CASE m = "T_bye" -> AIEv("response.text.delta",
                           <<"G","o","o","d","b","y","e",","," ">>, <<>>)
    [] m = "T_day" -> AIEv("response.text.delta",
                           <<"h","a","v","e"," ","a"," ","G","r","e","a","t"," ","D","a","y">>, <<>>)
    [] m = "D_empty" -> AIEv("response.done", <<>>, <<>>)
    [] m = "D_thanks" -> AIEv("response.done", <<>>,
         << <<Item("audio", TRUE,
               <<" "," ","T","h","a","n","k"," ","y","o","u"," ","a","n","d"," ","G","O","O","D","B","Y","E","."," ">>)>> >>)
    [] m = "D_eee" -> AIEv("response.done", <<>>,
         << <<Item("audio", TRUE, <<"G","o","o","d","b","y","e","e","e">>)>> >>)
    [] m = "D_assist" -> AIEv("response.done", <<>>,
         << <<Item("audio", TRUE,
               <<"H","o","w"," ","e","l","s","e"," ","m","a","y"," ","I"," ","a","s","s","i","s","t"," ","y","o","u"," ","t","o","d","a","y","?">>)>> >>)
    [] m = "D_multi" -> AIEv("response.done", <<>>,
         << <<Item("text",  TRUE,  <<"g","o","o","d","b","y","e">>),
              Item("audio", FALSE, <<>>),
              Item("audio", TRUE,  <<"T","a","k","e"," ","c","a","r","e">>),
              Item("audio", TRUE,  <<"H","a","v","e"," ","a"," ","g","r","e","a","t"," ","d","a","y">>)>> >>)
    [] m = "A_hello"    -> AIEv("response.audio.delta", <<"a","G","V","s","b","G","8","=">>, <<>>)
    [] m = "A_noncanon" -> AIEv("response.audio.delta", <<"a","G","V","s","b","G","9","=">>, <<>>)
    [] m = "A_badpad"   -> AIEv("response.audio.delta", <<"a","G","V","s","b","G","8">>, <<>>)
    [] m = "A_empty"    -> AIEv("response.audio.delta", <<>>, <<>>)
    [] m = "X_created"  -> AIEv("session.created", <<>>, <<>>)
    [] m = "X_garbage"  -> [json |-> FALSE, type |-> None, delta |-> <<>>, output |-> <<>>]

\* what the /incoming-call form and the /media-stream query can carry
CallSids == {"CA1", "CA2"}
\* the callSid a /media-stream query can carry
QuerySids == {"CA1"}
\* call.status values of the provider: "in-progress" is the active one
CallStatuses == {"in-progress", "completed", "ringing"}
\* which provider request of the hang-up raises
Failures == {"none", "fetch", "update"}

(* ------------------------------ state ---------------------------------- *)
VARIABLES
  variant,          \* "main" = src/main.py, "minimal" = src/src/main.py
  call_sid_cache,   \* call_sid_cache.get("last")
  form_sid,         \* form.get("CallSid") of the latest /incoming-call request
  query_sid,        \* query.get("callSid", [None])[0] of the connection
  hpc,              \* handle_media_stream: idle, accepted, running, done, raised
  call_sid,         \* the session identifier the handler resolved
  stream_sid,       \* nonlocal stream_sid
  full_text,        \* nonlocal full_text
  current_response, \* send_twilio's local current_response
  recv_task,        \* recv_twilio(): idle, running, returned, raised
  send_task,        \* send_twilio(): idle, running, returned, raised
  websocket,        \* the telephony channel: open, closed
  openai_ws,        \* the AI channel: none, open, closed
  nTw,              \* how many frames recv_twilio has taken
  lastTw,           \* the frame recv_twilio took last
  mediaRecvd,       \* payloads of the media frames recv_twilio took, in order
  nAI,              \* how many events send_twilio has taken
  lastAI,           \* the event send_twilio took last
  to_openai,        \* messages sent on openai_ws, in order
  to_twilio,        \* frames sent on websocket, in order
  call_ctl          \* requests made through twilio_client, in order

vars == <<variant, call_sid_cache, form_sid, query_sid, hpc, call_sid, stream_sid, full_text,
          current_response, recv_task, send_task, websocket, openai_ws,
          nTw, lastTw, mediaRecvd, nAI, lastAI,
          to_openai, to_twilio, call_ctl>>

session == <<call_sid, stream_sid, full_text, current_response>>
tasks   == <<recv_task, send_task>>
logs    == <<nTw, lastTw, mediaRecvd, nAI, lastAI,
             to_openai, to_twilio, call_ctl>>

Init ==
  /\ variant \in {"main", "minimal"}
  /\ call_sid_cache = None
  /\ form_sid = None
  /\ query_sid = None
  /\ hpc = "idle"
  /\ call_sid = None
  /\ stream_sid = None
  /\ full_text = <<>>
  /\ current_response = <<>>
  /\ recv_task = "idle"
  /\ send_task = "idle"
  /\ websocket = "open"
  /\ openai_ws = "none"
  /\ nTw = 0
  /\ lastTw = None
  /\ mediaRecvd = <<>>
  /\ nAI = 0
  /\ lastAI = None
  /\ to_openai = <<>>
  /\ to_twilio = <<>>
  /\ call_ctl = <<>>

(* ------------------------------ helpers -------------------------------- *)
Last(q) == q[Len(q)]

\* a plausible slip: an identifier already cached is kept
cache_after_FirstWins(v, cache, sid) ==
  IF v = "main" /\ cache = None THEN sid ELSE cache

\* src/main.py:58  call_sid_cache["last"] = call_sid
\* (src/src/main.py:54-62 keeps no cache)
cache_after(v, cache, sid) == IF v = "main" THEN sid ELSE cache

\* a plausible slip: the cached identifier is preferred to the query's
resolve_CacheFirst(v, q, cache) ==
  IF v = "main" /\ cache # None THEN cache ELSE q

\* src/main.py:74-77  the query's callSid, else the cached one
\* (src/src/main.py:69 uses the query's callSid only)
resolve(v, q, cache) == IF q # None THEN q ELSE IF v = "main" THEN cache ELSE None

\* a plausible slip: the configuration message is sent again
send_session_update_Twice ==
  << [type |-> "session.update", audio |-> None],
     [type |-> "session.update", audio |-> None] >>

\* src/main.py:192-205  the messages send_session_update puts on openai_ws
send_session_update == << [type |-> "session.update", audio |-> None] >>

\* a plausible slip: the payload is taken from the wrong place
input_audio_buffer_append_Wrong(payload) ==
  [type |-> "input_audio_buffer.append", audio |-> "AAAA"]

\* src/main.py:104-107
input_audio_buffer_append(payload) ==
  [type |-> "input_audio_buffer.append", audio |-> payload]

\* src/main.py:177-182
media_frame(sid, bytes) ==
  [event |-> "media", streamSid |-> sid, payload |-> b64encode(bytes)]

\* a plausible slip: any audio transcript hangs up, the trigger test is lost
RECURSIVE scan_items_AnyTranscript(_, _)
scan_items_AnyTranscript(items, i) ==
  IF i > Len(items) THEN "nomatch"
  ELSE IF items[i].type = "audio" /\ items[i].has_transcript
    THEN "match"
    ELSE scan_items_AnyTranscript(items, i + 1)

\* src/main.py:143-148  the for loop over response.output[0].content:
\* "error" is the IndexError of output[0] on an empty output, "match" the
\* first audio item whose transcript is a goodbye trigger.
RECURSIVE scan_items(_, _)
scan_items(items, i) ==
  IF i > Len(items) THEN "nomatch"
  ELSE IF /\ items[i].type = "audio"
          /\ items[i].has_transcript
          /\ is_goodbye_trigger(lower(items[i].transcript))
    THEN "match"
    ELSE scan_items(items, i + 1)

scan_response(output) ==
  IF Len(output) = 0 THEN "error" ELSE scan_items(output[1], 1)

\* a request made through twilio_client: ok = FALSE if it raised, status is
\* the call.status a fetch returned
Req(op, sid, ok) == [op |-> op, sid |-> sid, ok |-> ok, status |-> None]
Fetched(sid, st) == [op |-> "fetch", sid |-> sid, ok |-> TRUE, status |-> st]

\* a plausible slip: every status but "completed" is taken for an active call
hangup_main_NotCompleted(sid, st, fail) ==
  IF sid = None THEN <<>>
  ELSE IF fail = "fetch" THEN <<Req("fetch", sid, FALSE)>>
  ELSE <<Fetched(sid, st),
         Req(IF st # "completed" THEN "update_twiml" ELSE "update_completed",
             sid, fail # "update")>>

\* src/main.py:151-167  the requests of one hang-up, in order
hangup_main(sid, st, fail) ==
  IF sid = None THEN <<>>
  ELSE IF fail = "fetch" THEN <<Req("fetch", sid, FALSE)>>
  ELSE <<Fetched(sid, st),
         Req(IF st = "in-progress" THEN "update_twiml" ELSE "update_completed",
             sid, fail # "update")>>

\* src/src/main.py:106-107
hangup_minimal(sid, fail) ==
  IF sid = None THEN <<>>
  ELSE <<Req("update_completed", sid, fail # "update")>>

\* a plausible slip: the loop goes on after the hang-up
after_hangup_KeepsRunning == "running"

\* src/main.py:168 `return`, src/src/main.py:108 `break`
after_hangup == "returned"

(* ------------------------------ actions -------------------------------- *)
\* src/main.py:54-66  /incoming-call
handle_incoming_call(sid) ==
  /\ form_sid' = sid
  /\ call_sid_cache' = cache_after(variant, call_sid_cache, sid)
  /\ UNCHANGED <<variant, query_sid, hpc, session, tasks, websocket, openai_ws, logs>>

\* src/main.py:70-85  /media-stream is accepted, the identifier resolved
Accept(q) ==
  /\ hpc = "idle"
  /\ hpc' = "accepted"
  /\ query_sid' = q
  /\ call_sid' = resolve(variant, q, call_sid_cache)
  /\ stream_sid' = None
  /\ full_text' = <<>>
  /\ UNCHANGED <<variant, call_sid_cache, form_sid, current_response, tasks, websocket,
                 openai_ws, logs>>

\* src/main.py:87-95,189  websockets.connect, send_session_update, and the
\* two pumps are started by asyncio.gather; a failed connect raises out of
\* the handler and the server closes the telephony connection
Connect(ok) ==
  /\ hpc = "accepted"
  /\ IF ok
       THEN /\ hpc' = "running"
            /\ openai_ws' = "open"
            /\ to_openai' = to_openai \o send_session_update
            /\ recv_task' = "running"
            /\ send_task' = "running"
            /\ UNCHANGED websocket
       ELSE /\ hpc' = "raised"
            /\ websocket' = "closed"
            /\ UNCHANGED <<openai_ws, to_openai, tasks>>
  /\ UNCHANGED <<variant, call_sid_cache, form_sid, query_sid,
                 session, nTw, lastTw, mediaRecvd,
                 nAI, lastAI, to_twilio, call_ctl>>

\* src/main.py:97-107  one iteration of recv_twilio's loop on frame m
RecvTwilio(m) ==
  /\ recv_task = "running"
  /\ websocket = "open"
  /\ nTw + nAI < MaxEvents
  /\ nTw' = nTw + 1
  /\ lastTw' = m
  /\ mediaRecvd' = IF TwEvent(m).json /\ TwEvent(m).event = "media"
                     THEN Append(mediaRecvd, TwEvent(m).payload)
                     ELSE mediaRecvd
  /\ LET data == TwEvent(m) IN
       IF ~data.json
         THEN \* json.loads raises
              /\ recv_task' = "raised"
              /\ UNCHANGED <<stream_sid, to_openai>>
       ELSE IF data.event = "start"
         THEN /\ stream_sid' = data.streamSid
              /\ UNCHANGED <<recv_task, to_openai>>
       ELSE IF data.event = "media"
         THEN IF openai_ws = "open"
                THEN /\ to_openai' = Append(to_openai,
                                        input_audio_buffer_append(data.payload))
                     /\ UNCHANGED <<recv_task, stream_sid>>
                ELSE \* openai_ws.send raises ConnectionClosed
                     /\ recv_task' = "raised"
                     /\ UNCHANGED <<stream_sid, to_openai>>
       ELSE UNCHANGED <<recv_task, stream_sid, to_openai>>
  /\ UNCHANGED <<variant, call_sid_cache, form_sid, query_sid,
                 hpc, call_sid, full_text,
                 current_response, send_task, websocket, openai_ws, nAI,
                 lastAI, to_twilio, call_ctl>>

\* src/main.py:99  iter_text() ends on the disconnect of the telephony
\* channel (closed by the far end, or already closed by the server)
RecvTwilioDisconnect ==
  /\ recv_task = "running"
  /\ recv_task' = "returned"
  /\ websocket' = "closed"
  /\ UNCHANGED <<variant, call_sid_cache, form_sid, query_sid,
                 hpc, session, send_task, openai_ws,
                 logs>>

\* src/main.py:174  an audio delta that is not empty
is_audio_delta(data) ==
  data.json /\ data.type = "response.audio.delta" /\ data.delta # <<>>

\* The effect of one iteration of send_twilio's loop, as the new values of
\* what the loop can change: the task, the two text buffers, the frames sent
\* to telephony and the call-control requests.
Effect(task, full, cur, tw, ctl) ==
  [task |-> task, full |-> full, cur |-> cur, tw |-> tw, ctl |-> ctl]

\* a plausible slip: response.done clears full_text along with
\* current_response
send_twilio_main_ClearsFullText(data, st, fail) ==
  IF ~data.json
    THEN Effect("raised", full_text, current_response, to_twilio, call_ctl)
  ELSE IF data.type = "response.text.delta"
    THEN Effect(send_task, full_text \o lower(data.delta),
                current_response \o lower(data.delta), to_twilio, call_ctl)
  ELSE IF data.type = "response.done"
    THEN IF scan_response(data.output) = "match"
           THEN Effect(after_hangup, full_text, current_response, to_twilio,
                       call_ctl \o hangup_main(call_sid, st, fail))
           ELSE Effect(send_task, <<>>, <<>>, to_twilio, call_ctl)
  ELSE IF is_audio_delta(data)
    THEN LET decoded == b64decode(data.delta) IN
           IF decoded.ok /\ websocket = "open"
             THEN Effect(send_task, full_text, current_response,
                         Append(to_twilio, media_frame(stream_sid, decoded.bytes)),
                         call_ctl)
             ELSE Effect(send_task, full_text, current_response, to_twilio,
                         call_ctl)
  ELSE Effect(send_task, full_text, current_response, to_twilio, call_ctl)

\* src/main.py:129-187
send_twilio_main(data, st, fail) ==
  IF ~data.json
    THEN \* line 131: json.loads raises, outside any try
         Effect("raised", full_text, current_response, to_twilio, call_ctl)
  ELSE IF data.type = "response.text.delta"
    THEN \* lines 134-138
         Effect(send_task, full_text \o lower(data.delta),
                current_response \o lower(data.delta), to_twilio, call_ctl)
  ELSE IF data.type = "response.done"
    THEN \* lines 140-172
         IF scan_response(data.output) = "match"
           THEN Effect(after_hangup, full_text, current_response, to_twilio,
                       call_ctl \o hangup_main(call_sid, st, fail))
           ELSE Effect(send_task, full_text, <<>>, to_twilio, call_ctl)
  ELSE IF is_audio_delta(data)
    THEN \* lines 174-184: a failed decode or send is caught and printed
         LET decoded == b64decode(data.delta) IN
           IF decoded.ok /\ websocket = "open"
             THEN Effect(send_task, full_text, current_response,
                         Append(to_twilio, media_frame(stream_sid, decoded.bytes)),
                         call_ctl)
             ELSE Effect(send_task, full_text, current_response, to_twilio,
                         call_ctl)
  ELSE Effect(send_task, full_text, current_response, to_twilio, call_ctl)

\* src/src/main.py:97-121
send_twilio_minimal(data, fail) ==
  IF ~data.json
    THEN \* line 99
         Effect("raised", full_text, current_response, to_twilio, call_ctl)
  ELSE IF data.type = "response.text.delta"
    THEN \* lines 101-108
         LET full == full_text \o lower(data.delta) IN
           IF minimal_trigger(full)
             THEN Effect(IF call_sid # None /\ fail = "update"
                           THEN "raised" ELSE after_hangup,
                         full, current_response, to_twilio,
                         call_ctl \o hangup_minimal(call_sid, fail))
             ELSE Effect(send_task, full, current_response, to_twilio, call_ctl)
  ELSE IF is_audio_delta(data)
    THEN \* lines 111-118: no try, a failed decode or send ends the task
         LET decoded == b64decode(data.delta) IN
           IF decoded.ok /\ websocket = "open"
             THEN Effect(send_task, full_text, current_response,
                         Append(to_twilio, media_frame(stream_sid, decoded.bytes)),
                         call_ctl)
             ELSE Effect("raised", full_text, current_response, to_twilio,
                         call_ctl)
  ELSE Effect(send_task, full_text, current_response, to_twilio, call_ctl)

\* one iteration of send_twilio's loop on event m; st and fail are what the
\* provider answers if the iteration hangs up
SendTwilio(m, st, fail) ==
  /\ send_task = "running"
  /\ openai_ws = "open"
  /\ nTw + nAI < MaxEvents
  \* the provider is asked on a text delta or a response.done at most
  /\ (st # "in-progress" \/ fail # "none")
       => AIEvent(m).type \in {"response.text.delta", "response.done"}
  /\ nAI' = nAI + 1
  /\ lastAI' = m
  /\ \E e \in {IF variant = "main"
                 THEN send_twilio_main(AIEvent(m), st, fail)
                 ELSE send_twilio_minimal(AIEvent(m), fail)} :
         \* the provider answers only when it is asked
         /\ (e.ctl = call_ctl) => (st = "in-progress" /\ fail = "none")
         /\ send_task' = e.task
         /\ full_text' = e.full
         /\ current_response' = e.cur
         /\ to_twilio' = e.tw
         /\ call_ctl' = e.ctl
  /\ UNCHANGED <<variant, call_sid_cache, form_sid, query_sid,
                 hpc, call_sid, stream_sid,
                 recv_task, websocket, openai_ws, nTw, lastTw, mediaRecvd,
                 to_openai>>

\* src/main.py:130  openai_ws.recv() raises ConnectionClosed: the AI channel
\* was closed by the far end, or is already closed by the handler's exit
SendTwilioConnectionClosed ==
  /\ send_task = "running"
  /\ openai_ws # "none"
  /\ send_task' = "raised"
  /\ openai_ws' = "closed"
  /\ UNCHANGED <<variant, call_sid_cache, form_sid, query_sid,
                 hpc, session, recv_task, websocket,
                 logs>>

\* src/main.py:189,87  asyncio.gather returns once BOTH tasks have returned;
\* the `async with` then closes openai_ws and the server the telephony side
GatherReturn ==
  /\ hpc = "running"
  /\ recv_task = "returned"
  /\ send_task = "returned"
  /\ hpc' = "done"
  /\ openai_ws' = "closed"
  /\ websocket' = "closed"
  /\ UNCHANGED <<variant, call_sid_cache, form_sid, query_sid,
                 session, tasks, logs>>

\* src/main.py:189  asyncio.gather re-raises the first exception of a task;
\* the other task is not cancelled
GatherRaise ==
  /\ hpc = "running"
  /\ "raised" \in {recv_task, send_task}
  /\ hpc' = "raised"
  /\ openai_ws' = "closed"
  /\ websocket' = "closed"
  /\ UNCHANGED <<variant, call_sid_cache, form_sid, query_sid,
                 session, tasks, logs>>

Next ==
  \/ \E sid \in CallSids \cup {None} : handle_incoming_call(sid)
  \/ \E q \in QuerySids \cup {None} : Accept(q)
  \/ \E ok \in BOOLEAN : Connect(ok)
  \/ \E m \in TwMsgs : RecvTwilio(m)
  \/ RecvTwilioDisconnect
  \/ \E m \in AIMsgs, st \in CallStatuses, fail \in Failures :
       SendTwilio(m, st, fail)
  \/ SendTwilioConnectionClosed
  \/ GatherReturn
  \/ GatherRaise

Spec == Init /\ [][Next]_vars

\* What the event loop guarantees: a task whose wait is over runs. The
\* handler resumes when gather completes, and a task blocked on a channel
\* that is already closed is woken. Whether the far ends send or close is
\* not guaranteed.
FairSpec ==
  /\ Spec
  /\ WF_vars(GatherReturn)
  /\ WF_vars(GatherRaise)
  /\ WF_vars(websocket = "closed" /\ RecvTwilioDisconnect)
  /\ WF_vars(openai_ws = "closed" /\ SendTwilioConnectionClosed)

(* ============================== claims ================================= *)
UpdateOps == {"update_twiml", "update_completed"}

\* how many hang-up requests (graceful or mark-completed) were issued
HangupCount == Cardinality({i \in DOMAIN call_ctl : call_ctl[i].op \in UpdateOps})

Ended == {"returned", "raised"}

\* this step is an iteration of recv_twilio / of send_twilio
TwStep == nTw' = nTw + 1
AIStep == nAI' = nAI + 1

(* C1: in every session, whatever the AI events, at most one hang-up        *)
(* request (graceful pause-and-hangup update or mark-completed update) is   *)
(* issued.                                                                  *)
C1_AtMostOneHangup == HangupCount <= 1

\* a response with several matching content items was handled, one request
C1_Witness == lastAI = "D_multi" /\ HangupCount = 1

(* C2: once either pump has terminated, the other pump is cancelled: it     *)
(* takes no further event.                                                  *)
C2_OtherPumpCancelled ==
  [][(recv_task \in Ended \/ send_task \in Ended)
       => (nTw' = nTw /\ nAI' = nAI)]_vars

(* C3: after the telephony channel has closed and recv_twilio has returned, *)
(* the session eventually reaches teardown (the handler has finished and    *)
(* the AI channel is closed), also when the AI channel stays silent.        *)
C3_TeardownAfterTelephonyClose ==
  (recv_task = "returned") ~> (hpc \in {"done", "raised"} /\ openai_ws = "closed")

(* C4: when the text accumulated from the text deltas contains a closing    *)
(* phrase, the hang-up is issued at once (exactly one request) and the      *)
(* AI->telephony pump has terminated, without waiting for response.done.    *)
C4_DeltaTriggersHangup ==
  ( /\ lastAI \in {"T_bye", "T_day"}
    /\ call_sid # None
    /\ is_goodbye_trigger(full_text) )
  => (HangupCount = 1 /\ send_task # "running")

(* C5: no media frame is sent to telephony while the StreamHandle is unset. *)
C5_NoFrameWithoutStreamHandle ==
  \A i \in DOMAIN to_twilio : to_twilio[i].streamSid # None

\* the audio of the input_audio_buffer.append messages sent to the AI channel
RECURSIVE Appends(_)
Appends(q) ==
  IF q = <<>> THEN <<>>
  ELSE IF q[1].type = "input_audio_buffer.append"
    THEN <<q[1].audio>> \o Appends(Tail(q))
    ELSE Appends(Tail(q))

IsPrefix(a, b) == Len(a) <= Len(b) /\ a = SubSeq(b, 1, Len(a))

(* C6: the payloads of the input_audio_buffer.append messages sent to the   *)
(* AI channel are at every moment a prefix of the payloads of the media     *)
(* frames received, in order and unchanged; the two sequences are equal     *)
(* whenever the frames taken so far were all handled (recv_twilio did not   *)
(* end with an error).                                                      *)
C6_AppendsFollowMedia ==
  /\ IsPrefix(Appends(to_openai), mediaRecvd)
  /\ (recv_task # "raised" => Appends(to_openai) = mediaRecvd)

\* start{MZ1}, media AAAA, media BBBB were received and both forwarded
C6_Witness ==
  /\ stream_sid = "MZ1"
  /\ mediaRecvd = <<"AAAA", "BBBB">>
  /\ Appends(to_openai) = <<"AAAA", "BBBB">>

\* the text of a canonical base64 encoding: whole quads of alphabet
\* characters, padding only at the end, unused bits zero
Canonical(d) ==
  LET n == Len(d) IN
  /\ n > 0
  /\ n % 4 = 0
  /\ \A i \in 1..(n - 2) : IsB64(d[i])
  /\ \/ IsB64(d[n - 1]) /\ IsB64(d[n])
     \/ IsB64(d[n - 1]) /\ d[n] = "=" /\ B64Val(d[n - 1]) % 4 = 0
     \/ d[n - 1] = "=" /\ d[n] = "=" /\ B64Val(d[n - 2]) % 16 = 0

(* C7 as claimed: every non-empty audio delta handled while the             *)
(* StreamHandle is s puts exactly one frame {media, s, p} on the telephony  *)
(* channel, with p equal to the delta as received.                          *)
C7_PayloadEqualsDelta ==
  [][(AIStep /\ is_audio_delta(AIEvent(lastAI')))
       => to_twilio' = Append(to_twilio,
            [event |-> "media", streamSid |-> stream_sid,
             payload |-> AIEvent(lastAI').delta])]_vars

(* C7 as amended: a non-empty audio delta that decodes, handled while the   *)
(* telephony channel is open and the StreamHandle is s, appends exactly one *)
(* frame {media, s, p}; p decodes to the bytes the delta decodes to, and p  *)
(* is the delta itself when the delta is canonical base64. A delta that     *)
(* does not decode, or one handled after the telephony channel closed,      *)
(* sends nothing. No other step sends a frame.                              *)
C7_FrameCarriesDecodedBytes ==
  [][IF AIStep /\ is_audio_delta(AIEvent(lastAI'))
            /\ b64decode(AIEvent(lastAI').delta).ok /\ websocket = "open"
       THEN /\ Len(to_twilio') = Len(to_twilio) + 1
            /\ SubSeq(to_twilio', 1, Len(to_twilio)) = to_twilio
            /\ LET f == Last(to_twilio')
                   d == AIEvent(lastAI').delta
               IN  /\ f.event = "media"
                   /\ f.streamSid = stream_sid
                   /\ b64decode(f.payload).ok
                   /\ b64decode(f.payload).bytes = b64decode(d).bytes
                   /\ Canonical(d) => f.payload = d
       ELSE to_twilio' = to_twilio]_vars

\* after start{MZ1}, start{MZ2}, a non-canonical delta went out under MZ2
C7_Witness ==
  /\ lastAI = "A_noncanon"
  /\ Len(to_twilio) = 1
  /\ to_twilio[1].streamSid = "MZ2"
  /\ to_twilio[1].payload # AIEvent("A_noncanon").delta

(* C8: session.update is sent to the AI channel exactly once per session,   *)
(* and before any input_audio_buffer.append.                                *)
C8_SessionUpdateOnceFirst ==
  LET idx == {i \in DOMAIN to_openai : to_openai[i].type = "session.update"}
  IN  /\ Cardinality(idx) <= 1
      /\ (openai_ws # "none" \/ to_openai # <<>>) => idx = {1}

\* the configuration was followed by two forwarded frames, AI events between
C8_Witness ==
  /\ Len(to_openai) = 3
  /\ nAI = 1
  /\ to_openai[1].type = "session.update"

\* the events of the model whose text the closing-phrase policy matches on
\* the final-transcript path (an audio item of output[0] whose transcript,
\* in lower case, has a trigger as a substring)
TranscriptTriggers == {"D_thanks", "D_eee", "D_multi"}

\* the termination detector fired in this step: send_twilio left its loop
\* normally, and requests were issued iff there is an identifier
Fired ==
  /\ AIStep
  /\ send_task = "running"
  /\ send_task' = "returned"
  /\ (call_ctl' # call_ctl) = (call_sid # None)

C10_MalformedSkipped ==
  [][/\ (TwStep /\ lastTw' = "garbage")
          => (recv_task' = "running" /\ UNCHANGED session)
     /\ (AIStep /\ lastAI' = "X_garbage")
          => (send_task' = "running" /\ UNCHANGED session)]_vars

(* C11: a failing step of the hang-up procedure (the status query or a      *)
(* call-control update raises) is caught: the AI->telephony pump does not   *)
(* end with an error.                                                       *)
C11_HangupFailureContained ==
  (\E i \in DOMAIN call_ctl : ~call_ctl[i].ok) => send_task # "raised"

\* the event send_twilio took in this step matched the closing-phrase check
\* of the program that runs
Matched ==
  IF variant = "main"
    THEN lastAI' \in TranscriptTriggers
    ELSE lastAI' \in {"T_bye", "T_day"} /\ minimal_trigger(full_text')

(* C12: when no session identifier is resolvable and a closing phrase is    *)
(* matched, no call-control request is issued and the relay goes on: the    *)
(* AI->telephony pump keeps running, so later audio deltas are forwarded.   *)
C12_RelayProceedsWithoutIdentifier ==
  [][(AIStep /\ variant = "main" /\ call_sid = None /\ Matched)
       => (call_ctl' = call_ctl /\ send_task' = "running")]_vars

\* this step is the acceptance of the streaming connection
AcceptStep == hpc = "idle" /\ hpc' = "accepted"

(* C13: for any interleaving of incoming-call notifications and the         *)
(* streaming connection (src/main.py), a connection whose request carries a *)
(* callSid uses exactly that one, and a connection without one uses the     *)
(* identifier of the most recent incoming-call notification at the moment   *)
(* it is accepted.                                                          *)
C13_ResolveLastWriteWins ==
  [][(AcceptStep /\ variant = "main")
       => call_sid' = (IF query_sid' # None THEN query_sid' ELSE form_sid)]_vars

\* no callSid in the query: the identifier of the latest notification is used
C13_Witness ==
  /\ variant = "main"
  /\ hpc = "running"
  /\ query_sid = None
  /\ call_sid = "CA2"

(* C14: the hang-up procedure of src/main.py queries the call status first  *)
(* and then issues exactly one request: the graceful pause-and-hangup iff   *)
(* the status is "in-progress", the mark-completed fallback iff it is       *)
(* anything else; no request precedes the query and the two requests are    *)
(* never both issued. (A query that raises is followed by no request.)      *)
C14_QueryThenOneRequest ==
  variant = "main" =>
    LET upd == {i \in DOMAIN call_ctl : call_ctl[i].op \in UpdateOps} IN
    /\ Cardinality(upd) <= 1
    /\ \A i \in upd : i = 2 /\ call_ctl[1].op = "fetch" /\ call_ctl[1].ok
    /\ call_ctl # <<>> =>
         /\ call_ctl[1].op = "fetch"
         /\ call_ctl[1].ok =>
              /\ Len(call_ctl) = 2
              /\ (call_ctl[2].op = "update_twiml")
                   = (call_ctl[1].status = "in-progress")
              /\ (call_ctl[2].op = "update_completed")
                   = (call_ctl[1].status # "in-progress")

\* the status was neither active nor completed: mark-completed was issued
C14_Witness ==
  /\ variant = "main"
  /\ Len(call_ctl) = 2
  /\ call_ctl[1].status = "ringing"
  /\ call_ctl[2].op = "update_completed"

(* C15: the AI->telephony pump of src/main.py ends in two cases only: the   *)
(* detector matched (it returns), or the AI channel closed; a response.done *)
(* with no closing phrase, no output or no transcript leaves it running.    *)
C15_PumpEndsOnMatchOrClose ==
  [][variant = "main" =>
       /\ (send_task = "running" /\ send_task' \in Ended)
            => \/ AIStep /\ Matched /\ send_task' = "returned"
               \/ ~AIStep /\ openai_ws' = "closed"
       /\ (AIStep /\ lastAI' \in {"D_empty", "D_assist"})
            => send_task' = "running"]_vars

(* C16: the StreamHandle is changed only by the telephony->AI pump, only on *)
(* a start frame, and then equals that frame's streamSid; a media frame or  *)
(* a frame of another kind leaves it unchanged, and a frame of another kind *)
(* sends nothing to the AI channel; the accumulated text is changed only by *)
(* the AI->telephony pump on a text delta; no AI event changes the          *)
(* StreamHandle.                                                            *)
C16_SingleWriter ==
  [][/\ stream_sid' # stream_sid
          => TwStep /\ TwEvent(lastTw').event = "start"
     /\ (TwStep /\ TwEvent(lastTw').event = "start")
          => stream_sid' = TwEvent(lastTw').streamSid
     /\ (TwStep /\ TwEvent(lastTw').event # "start")
          => stream_sid' = stream_sid
     /\ (TwStep /\ TwEvent(lastTw').event \notin {"start", "media"})
          => to_openai' = to_openai
     /\ full_text' # full_text
          => AIStep /\ AIEvent(lastAI').type = "response.text.delta"
     /\ AIStep => stream_sid' = stream_sid]_vars

\* a second start replaced the handle, a later response.done left the text
C16_Witness ==
  /\ stream_sid = "MZ2"
  /\ full_text # <<>>
  /\ lastAI = "D_assist"

(* C17: a failure while forwarding one audio delta to telephony (decode     *)
(* error or failed send) is contained to that frame: the AI->telephony pump *)
(* does not terminate.                                                      *)
C17_AudioFailureContained ==
  [][(AIStep /\ is_audio_delta(AIEvent(lastAI')))
       => send_task' = "running"]_vars

(* C18: if the connection's request carries a callSid c, the session's      *)
(* identifier is c and every call-control request of the session targets c, *)
(* whatever incoming-call notifications came before or during the session.  *)
C18_QueryIdentifierIsUsed ==
  query_sid # None =>
    /\ call_sid = query_sid
    /\ \A i \in DOMAIN call_ctl : call_ctl[i].sid = query_sid

\* the cache holds another call's identifier, the requests went to c
C18_Witness ==
  /\ query_sid = "CA1"
  /\ call_sid_cache = "CA2"
  /\ Len(call_ctl) = 2
  /\ call_ctl[2].sid = "CA1"

(* C19: a call-control request is issued only in a step in which            *)
(* send_twilio takes an AI event whose text contains a closing phrase (the  *)
(* transcript of an audio item of response.done, or the accumulated text    *)
(* deltas); audio deltas, telephony frames, diagnostic events and channel   *)
(* closure never cause one.                                                 *)
C19_NoSpuriousHangup ==
  [][call_ctl' # call_ctl =>
       /\ AIStep
       /\ IF variant = "main"
            THEN lastAI' \in TranscriptTriggers
            ELSE /\ lastAI' \in {"T_bye", "T_day"}
                 /\ is_goodbye_trigger(full_text')]_vars

\* the accumulated text deltas held a closing phrase and the request went out
C19_Witness ==
  /\ variant = "minimal"
  /\ lastAI = "T_day"
  /\ HangupCount = 1

====
